---- MODULE Spec2Model ----
(***************************************************************************)
(* NURBS curve editor: the curve engine of nurbs_curve.py (NurbsCurve) and *)
(* the Tk editor of display.py (Display).                                  *)
(*                                                                         *)
(* Real numbers are exact rationals <<num, den>> with den > 0, in lowest   *)
(* terms.  A raised exception is a value whose second component is not     *)
(* positive: <<0, 0>> is ZeroDivisionError, <<0, -1>> is IndexError; it    *)
(* propagates through every arithmetic operation, as a Python exception    *)
(* propagates out of the expression that raised it.  Floating-point        *)
(* rounding is not modelled.                                               *)
(***************************************************************************)
EXTENDS Integers, Sequences, FiniteSets, TLC

VARIABLES
    \* ---- NurbsCurve object (nurbs_curve.py) ----
    control_points,   \* self.control_points: sequence of <<x, y>>
    weights,          \* self.weights: sequence of rationals
    degree,           \* self.degree
    knots,            \* self.knots (Python list, index j is knots[j + 1])
    \* ---- the frame of evaluate / of a direct cox_de_boor caller ----
    pc,               \* position of the caller
    samples,          \* argument of evaluate
    t_values,         \* local t_values of evaluate
    t,                \* the current parameter value
    influence,        \* the basis values computed for the current t, i = 0, 1, ...
    weight_sum,       \* local weight_sum of the current iteration
    point,            \* local point of the current iteration
    curve_points,     \* local list curve_points
    result,           \* the returned list
    \* ---- Display object (display.py) ----
    CP_list,          \* self.CP_list: sequence of [x, y, char, w]
    current_CP,       \* self.current_CP: None or <<px, py>>
    current_CP_i,     \* self.current_CP_i: None or a 0-based index
    slider_visible,   \* weight_slider_frame is packed
    weight_var,       \* value shown by weight_var and weight_slider, in tenths
    pressed,          \* the left mouse button is down on the canvas
    event,            \* the handler that ran last and its arguments
    calls,            \* calls of redraw_display and into NurbsCurve made by
                      \* the handler that ran last, in order
    canvas,           \* items on the canvas after the handler that ran last
    err,              \* exception raised by the handler that ran last
    stale             \* CP_list was reset since current_CP_i was assigned

curveVars == <<control_points, weights, degree, knots, pc, samples, t_values, t,
               influence, weight_sum, point, curve_points, result>>
editorVars == <<CP_list, current_CP, current_CP_i, slider_visible, weight_var,
                pressed,
                event, calls, canvas, err, stale>>
vars == <<curveVars, editorVars>>

\* Python's None, for each field by a value of the field's own kind that the
\* field never otherwise holds: as a list or tuple, as an index, as a name
NoneSeq == <<>>
NoneIndex == -1
None == "None"

\* ------------------------------------------------------------------ bounds
MaxCP == 8          \* control points of a curve whose basis is called directly
MaxDegree == 3      \* degrees 0 .. MaxDegree
TDen == 4           \* direct calls take t on the grid of multiples of 1/TDen
MaxEvalCP == 4      \* control points of a curve that is evaluated
MaxSamples == 4     \* evaluate(samples) for samples in 1 .. MaxSamples
MaxPoints == 4      \* the editor's user places at most MaxPoints control points

\* --------------------------------------------------------------- rationals
Abs(a) == IF a < 0 THEN -a ELSE a

RECURSIVE GCD(_, _)
GCD(a, b) == IF b = 0 THEN a ELSE GCD(b, a % b)

ZeroDivisionError == <<0, 0>>
IndexError == <<0, -1>>
Raised(q) == q[2] <= 0

Q(n) == <<n, 1>>
Norm(n, d) ==
    LET g == GCD(Abs(n), Abs(d))
        s == IF d < 0 THEN -1 ELSE 1
    IN  <<(s * n) \div g, (s * d) \div g>>

Add(a, b) == IF Raised(a) THEN a ELSE IF Raised(b) THEN b
             ELSE Norm(a[1] * b[2] + b[1] * a[2], a[2] * b[2])
Sub(a, b) == IF Raised(a) THEN a ELSE IF Raised(b) THEN b
             ELSE Norm(a[1] * b[2] - b[1] * a[2], a[2] * b[2])
Mul(a, b) == IF Raised(a) THEN a ELSE IF Raised(b) THEN b
             ELSE Norm(a[1] * b[1], a[2] * b[2])
\* Python's a / b: ZeroDivisionError when b is 0
Div(a, b) == IF Raised(a) THEN a ELSE IF Raised(b) THEN b
             ELSE IF b[1] = 0 THEN ZeroDivisionError
             ELSE Norm(a[1] * b[2], a[2] * b[1])
Leq(a, b) == a[1] * b[2] <= b[1] * a[2]
Less(a, b) == a[1] * b[2] < b[1] * a[2]

\* ------------------------------------------------------------- Python lists
Range(a, b) == [j \in 1..(IF b > a THEN b - a ELSE 0) |-> a + j - 1]
Repeat(v, m) == [j \in 1..(IF m > 0 THEN m ELSE 0) |-> v]
\* seq[j] of a Python list: negative j counts from the end
PyIndex(seq, j) ==
    IF 0 <= j /\ j < Len(seq) THEN Q(seq[j + 1])
    ELSE IF j < 0 /\ -j <= Len(seq) THEN Q(seq[Len(seq) + j + 1])
    ELSE IndexError

\* ------------------------------------------------ NurbsCurve (nurbs_curve.py)
\* the construction left commented out at lines 24-25
get_uniform_knots_v_short(cps, d) ==
    Repeat(0, d + 1) \o Range(1, Len(cps) - d) \o Repeat(Len(cps) - d, d + 1)

get_uniform_knots_v(cps, d) ==
    LET num_knots == Len(cps) + d + 1
    IN  Repeat(0, d + 1) \o Range(1, num_knots - 2 * d)
            \o Repeat(num_knots - 2 * d, d + 1)

\* the base case with the interval closed on the right
IndicatorClosed(lo, hi, tt) ==
    IF Raised(lo) THEN lo ELSE IF Raised(hi) THEN hi
    ELSE IF Leq(lo, tt) /\ Leq(tt, hi) THEN Q(1) ELSE Q(0)

\* line 42: 1.0 if knots[i] <= t < knots[i + 1] else 0.0
Indicator(lo, hi, tt) ==
    IF Raised(lo) THEN lo ELSE IF Raised(hi) THEN hi
    ELSE IF Leq(lo, tt) /\ Less(tt, hi) THEN Q(1) ELSE Q(0)

\* the term without its zero-denominator guard
TermUnguarded(numerator, denominator, N) ==
    Mul(Div(numerator, denominator), N)

\* lines 50 and 52: numerator / denominator * N if denominator != 0 else 0
\* (N, the recursive call, is evaluated only when the denominator is not 0)
Term(numerator, denominator, N) ==
    IF denominator # Q(0)
    THEN Mul(Div(numerator, denominator), N)
    ELSE Q(0)

RECURSIVE cox_de_boor(_, _, _)
cox_de_boor(i, k, tt) ==
    IF k = 0
    THEN Indicator(PyIndex(knots, i), PyIndex(knots, i + 1), tt)
    ELSE LET left_numerator == Sub(tt, PyIndex(knots, i))
             left_denominator == Sub(PyIndex(knots, i + k), PyIndex(knots, i))
             right_numerator == Sub(PyIndex(knots, i + k + 1), tt)
             right_denominator ==
                 Sub(PyIndex(knots, i + k + 1), PyIndex(knots, i + 1))
         IN  IF Raised(left_numerator) THEN left_numerator
             ELSE IF Raised(left_denominator) THEN left_denominator
             ELSE IF Raised(right_numerator) THEN right_numerator
             ELSE IF Raised(right_denominator) THEN right_denominator
             ELSE Add(Term(left_numerator, left_denominator,
                           cox_de_boor(i, k - 1, tt)),
                      Term(right_numerator, right_denominator,
                           cox_de_boor(i + 1, k - 1, tt)))

\* np.linspace(start, stop, num)[j], j = 0 .. num - 1
Linspace(start, stop, num) ==
    [j \in 1..num |->
        IF num = 1 THEN start
        ELSE Add(start, Div(Mul(Q(j - 1), Sub(stop, start)), Q(num - 1)))]

\* the values of influence in the inner loop of evaluate at t (line 74)
Influences(tt) ==
    [j \in 1..Len(control_points) |-> cox_de_boor(j - 1, degree, tt)]

\* the inner loop of evaluate (lines 73-76) after indices 0 .. m - 1, infl
\* being the values influence takes: <<weight_sum, point[0], point[1]>>
RECURSIVE InnerLoop(_, _)
InnerLoop(m, infl) ==
    IF m = 0 THEN <<Q(0), Q(0), Q(0)>>
    ELSE LET prev == InnerLoop(m - 1, infl)
             iw == Mul(infl[m], Q(weights[m]))
         IN  <<Add(prev[1], iw),
               Add(prev[2], Mul(iw, Q(control_points[m][1]))),
               Add(prev[3], Mul(iw, Q(control_points[m][2])))>>

\* normalising whenever weight_sum is not 0
NormaliseNonZero(acc) ==
    IF acc[1] # Q(0)
    THEN <<Div(acc[2], acc[1]), Div(acc[3], acc[1])>>
    ELSE <<acc[2], acc[3]>>

\* lines 78-80: normalise when weight_sum > 0
Normalise(acc) ==
    IF Less(Q(0), acc[1])
    THEN <<Div(acc[2], acc[1]), Div(acc[3], acc[1])>>
    ELSE <<acc[2], acc[3]>>

\* curve_points[1:]
DropFirst(seq) == SubSeq(seq, 2, Len(seq))

\* line 83: curve_points[:-1]
DropLast(seq) == SubSeq(seq, 1, Len(seq) - 1)

\* ------------------------------------------------------------ inputs
WeightVals == {-1, 0, 1}
\* control points on a line, on a parabola
Layouts(n) == {[j \in 1..n |-> <<10 * j, 0>>], [j \in 1..n |-> <<j, j * j>>]}
TGrid == {Norm(m, TDen) : m \in (-TDen)..((MaxCP + 2) * TDen)}

\* Display.__init__, lines 11-20
editorIdle ==
    /\ CP_list = <<>> /\ current_CP = NoneSeq /\ current_CP_i = NoneIndex
    /\ slider_visible = FALSE /\ weight_var = 10 /\ pressed = FALSE
    /\ event = <<"__init__">> /\ calls = <<>> /\ canvas = <<0, 0, 0>>
    /\ err = None /\ stale = FALSE

\* ---------------------------------------------------- NurbsCurve actions
\* NurbsCurve.__init__(control_points, weights, degree)
Construct ==
    /\ pc = "new"
    /\ weights' = IF weights = NoneSeq
                  THEN [j \in 1..Len(control_points) |-> 1]
                  ELSE weights
    /\ knots' = get_uniform_knots_v(control_points, degree)
    /\ pc' = "constructed"
    /\ UNCHANGED <<control_points, degree, samples, t_values, t, influence,
                   weight_sum, point, curve_points, result, editorVars>>

\* a caller computes cox_de_boor(i, degree, t) for i = 0, 1, ..., n - 1
CallBasis ==
    /\ pc = "constructed"
    /\ Len(influence) < Len(control_points)
    /\ influence' = Append(influence, cox_de_boor(Len(influence), degree, t))
    /\ UNCHANGED <<control_points, weights, degree, knots, pc, samples,
                   t_values, t, weight_sum, point, curve_points, result,
                   editorVars>>

InitBasis ==
    /\ pc = "new"
    /\ \E n \in 1..MaxCP : control_points \in Layouts(n)
    /\ weights = NoneSeq
    /\ degree \in 0..MaxDegree
    /\ knots = <<>>
    /\ samples = 0 /\ t_values = <<>>
    /\ t \in TGrid
    /\ influence = <<>>
    /\ weight_sum = Q(0) /\ point = <<Q(0), Q(0)>>
    /\ curve_points = <<>> /\ result = NoneSeq
    /\ editorIdle

NextBasis == Construct \/ CallBasis
SpecBasis == InitBasis /\ [][NextBasis]_vars

\* evaluate(samples), lines 63-67
EvaluateEnter ==
    /\ pc = "constructed"
    /\ curve_points' = <<>>
    /\ t_values' = Linspace(PyIndex(knots, degree),
                            PyIndex(knots, -degree - 1), samples)
    /\ pc' = "loop"
    /\ UNCHANGED <<control_points, weights, degree, knots, samples, t,
                   influence, weight_sum, point, result, editorVars>>

\* one iteration of "for t in t_values", lines 69-81
EvaluateSample ==
    /\ pc = "loop"
    /\ Len(curve_points) < Len(t_values)
    /\ t' = t_values[Len(curve_points) + 1]
    /\ influence' = Influences(t')
    /\ LET acc == InnerLoop(Len(control_points), influence')
       IN  /\ weight_sum' = acc[1]
           /\ point' = Normalise(acc)
    /\ curve_points' = Append(curve_points, point')
    /\ UNCHANGED <<control_points, weights, degree, knots, pc, samples,
                   t_values, result, editorVars>>

\* line 83
EvaluateReturn ==
    /\ pc = "loop"
    /\ Len(curve_points) = Len(t_values)
    /\ result' = DropLast(curve_points)
    /\ pc' = "returned"
    /\ UNCHANGED <<control_points, weights, degree, knots, samples, t_values,
                   t, influence, weight_sum, point, curve_points, editorVars>>

InitEval ==
    /\ pc = "new"
    /\ \E n \in 1..MaxEvalCP :
          /\ control_points \in Layouts(n)
          /\ weights \in [1..n -> WeightVals] \cup {NoneSeq}
    /\ degree \in 0..MaxDegree
    /\ knots = <<>>
    /\ samples \in 1..MaxSamples
    /\ t_values = <<>>
    /\ t = Q(0)
    /\ influence = <<>>
    /\ weight_sum = Q(0) /\ point = <<Q(0), Q(0)>>
    /\ curve_points = <<>> /\ result = NoneSeq
    /\ editorIdle

NextEval == Construct \/ EvaluateEnter \/ EvaluateSample \/ EvaluateReturn
SpecEval == InitEval /\ [][NextEval]_vars

\* ------------------------------------------------------- Display (display.py)
Radius == 10            \* find_nearby_point(..., radius = 10)
EditorDegree == 3       \* NurbsCurve(CPs, weights, 3)
EditorSamples == 100    \* nurbs.evaluate(samples=100)
OrdA == 65              \* ord("A")
DefaultWeight == 10     \* w = 1.0, in tenths

\* inputs of the editor: canvas coordinates and slider values (in tenths)
MouseVals == {<<0, 0>>, <<6, 8>>, <<40, 0>>}
SliderVals == {1, 10, 25}

\* find_nearby_point: the index of the first control point within radius,
\* NoneIndex when there is none
RECURSIVE NearbyFrom(_, _, _)
NearbyFrom(i, x, y) ==
    IF i >= Len(CP_list) THEN NoneIndex
    ELSE LET px == CP_list[i + 1][1]
             py == CP_list[i + 1][2]
         IN  IF (x - px) * (x - px) + (y - py) * (y - py) <= Radius * Radius
             THEN i
             ELSE NearbyFrom(i + 1, x, y)
find_nearby_point(x, y) == NearbyFrom(0, x, y)

\* max(self.CP_list, key=lambda P: P[2])[2], as a code point
RECURSIVE MaxLabel(_)
MaxLabel(cps) ==
    IF Len(cps) = 1 THEN cps[1][3]
    ELSE LET m == MaxLabel(SubSeq(cps, 2, Len(cps)))
         IN  IF cps[1][3] >= m THEN cps[1][3] ELSE m
get_next_label == IF CP_list = <<>> THEN OrdA ELSE MaxLabel(CP_list) + 1

\* len(nurbs.evaluate(samples)): the generated samples without the last
EvaluateLen(n) == Len(DropLast([j \in 1..n |-> j]))

\* drawing the curve whatever the number of control points
DrawsCurveAlways(cps) == Len(cps) >= 0

\* the guard of redraw_display on drawing the curve
DrawsCurve(cps) == Len(cps) > 3

\* redraw_display over cps: the calls it makes, each with the number of
\* control points it works on
RedrawCalls(cps) ==
    IF DrawsCurve(cps)
    THEN <<<<"redraw_display", Len(cps)>>,
           <<"get_uniform_knots_v", Len(cps)>>,
           <<"evaluate", Len(cps)>>>>
    ELSE <<<<"redraw_display", Len(cps)>>>>
\* redraw_display over cps: <<lines between CPs, CPs drawn, curve segments>>
RedrawCanvas(cps) ==
    <<IF Len(cps) > 1 THEN Len(cps) - 1 ELSE 0,
      Len(cps),
      IF DrawsCurve(cps) THEN EvaluateLen(EditorSamples) - 1 ELSE 0>>

\* Python truthiness of self.current_CP_i: None and 0 are false
Truthy(i) == i # NoneIndex /\ i # 0

\* left_mouse_click
Click ==
    /\ ~pressed
    /\ \E xy \in MouseVals :
          LET x == xy[1]
              y == xy[2]
              i == find_nearby_point(x, y)
          IN  /\ pressed' = TRUE
              /\ event' = <<"left_mouse_click">>
              /\ err' = None
              /\ IF i # NoneIndex
                 THEN /\ current_CP_i' = i
                      /\ stale' = FALSE
                      /\ current_CP' = <<CP_list[i + 1][1], CP_list[i + 1][2]>>
                      \* show_weight_modifier
                      /\ weight_var' = CP_list[i + 1][4]
                      /\ slider_visible' = TRUE
                      /\ calls' = <<>>
                      /\ UNCHANGED <<CP_list, canvas>>
                 ELSE /\ Len(CP_list) < MaxPoints
                      /\ current_CP' = NoneSeq
                      /\ CP_list' = Append(CP_list,
                                       <<x, y, get_next_label, DefaultWeight>>)
                      /\ calls' = RedrawCalls(CP_list')
                      /\ canvas' = RedrawCanvas(CP_list')
                      /\ UNCHANGED <<current_CP_i, stale, weight_var,
                                     slider_visible>>
    /\ UNCHANGED curveVars

\* left_mouse_drag
Drag ==
    /\ pressed
    /\ \E xy \in MouseVals :
       LET x == xy[1]
           y == xy[2]
       IN
          /\ event' = <<"left_mouse_drag">>
          /\ IF current_CP # NoneSeq
             THEN IF current_CP_i >= 0 /\ current_CP_i < Len(CP_list)
                  THEN /\ CP_list' =
                            [CP_list EXCEPT ![current_CP_i + 1] =
                                <<x, y, @[3], @[4]>>]
                       /\ calls' = RedrawCalls(CP_list')
                       /\ canvas' = RedrawCanvas(CP_list')
                       /\ err' = None
                  ELSE /\ err' = "IndexError"
                       /\ calls' = <<>>
                       /\ UNCHANGED <<CP_list, canvas>>
             ELSE /\ err' = None
                  /\ calls' = <<>>
                  /\ UNCHANGED <<CP_list, canvas>>
    /\ UNCHANGED <<current_CP, current_CP_i, slider_visible, weight_var,
                   pressed, stale, curveVars>>

\* left_mouse_release
Release ==
    /\ pressed
    /\ pressed' = FALSE
    /\ current_CP' = NoneSeq
    /\ event' = <<"left_mouse_release">>
    /\ calls' = <<>>
    /\ err' = None
    /\ UNCHANGED <<CP_list, current_CP_i, slider_visible, weight_var, canvas,
                   stale, curveVars>>

\* update_weight_from_slider(value) and update_weight(new_weight)
Slider ==
    /\ slider_visible
    /\ ~pressed
    /\ \E new_weight \in SliderVals :
          /\ event' = <<"update_weight_from_slider", new_weight>>
          /\ IF Truthy(current_CP_i)
             THEN IF current_CP_i < Len(CP_list)
                  THEN /\ CP_list' =
                            [CP_list EXCEPT ![current_CP_i + 1] =
                                <<@[1], @[2], @[3], new_weight>>]
                       /\ weight_var' = new_weight
                       /\ calls' = RedrawCalls(CP_list')
                       /\ canvas' = RedrawCanvas(CP_list')
                       /\ err' = None
                  ELSE /\ err' = "IndexError"
                       /\ calls' = <<>>
                       /\ UNCHANGED <<CP_list, weight_var, canvas>>
             ELSE /\ err' = None
                  /\ calls' = <<>>
                  /\ UNCHANGED <<CP_list, weight_var, canvas>>
    /\ UNCHANGED <<current_CP, current_CP_i, slider_visible, pressed, stale,
                   curveVars>>

\* clear_display
Clear ==
    /\ ~pressed
    /\ CP_list' = <<>>
    /\ calls' = RedrawCalls(CP_list')
    /\ canvas' = RedrawCanvas(CP_list')
    /\ event' = <<"clear_display">>
    /\ err' = None
    /\ stale' = (current_CP_i # NoneIndex)
    /\ UNCHANGED <<current_CP, current_CP_i, slider_visible, weight_var,
                   pressed, curveVars>>

Init ==
    /\ editorIdle
    /\ control_points = <<>> /\ weights = NoneSeq /\ degree = EditorDegree
    /\ knots = <<>> /\ pc = "editor" /\ samples = EditorSamples
    /\ t_values = <<>> /\ t = Q(0) /\ influence = <<>>
    /\ weight_sum = Q(0) /\ point = <<Q(0), Q(0)>>
    /\ curve_points = <<>> /\ result = NoneSeq

Next == Click \/ Drag \/ Release \/ Slider \/ Clear
Spec == Init /\ [][Next]_vars

\* ------------------------------------------------------------ properties
RECURSIVE SumSeq(_)
SumSeq(seq) == IF seq = <<>> THEN Q(0)
               ELSE Add(seq[1], SumSeq(SubSeq(seq, 2, Len(seq))))

Count(seq, v) == Cardinality({j \in 1..Len(seq) : seq[j] = v})
NonDecreasing(seq) == \A j \in 1..(Len(seq) - 1) : seq[j] <= seq[j + 1]
Clamped(seq, d) ==
    /\ NonDecreasing(seq)
    /\ Count(seq, seq[1]) = d + 1
    /\ Count(seq, seq[Len(seq)]) = d + 1
NumCP == Len(control_points)
Built == pc # "new"
Zero2 == <<Q(0), Q(0)>>
t_min == PyIndex(knots, degree)
t_max == PyIndex(knots, Len(knots) - degree - 1)
Sampled == pc = "loop" /\ Len(curve_points) > 0

\* C1: for every n >= 1 and d >= 0 the knot vector built by
\* get_uniform_knots_v has length exactly n + d + 1.
C1_KnotLength == Built => Len(knots) = NumCP + degree + 1

\* C2 as stated: for every n >= 1 and d >= 0 the knot vector is
\* non-decreasing and its first and its last value each occur exactly d + 1
\* times.
C2_ClampedForAll == Built => Clamped(knots, degree)

\* C2 as amended: the same for every n >= d (n >= 1, d >= 0).
C2_ClampedFromDegree == (Built /\ NumCP >= degree) => Clamped(knots, degree)

C2_Witness == Built /\ NumCP = degree /\ degree = 2 /\ knots = <<0, 0, 0, 1, 1, 1>>

\* C3: for d in {1,2,3} and n in {d+1, d+2, d+5}, at every t with
\* knots[d] <= t < knots[n], the values cox_de_boor(i, d, t) for i = 0..n-1
\* sum to 1.
C3_PartitionOfUnity ==
    ( /\ pc = "constructed"
      /\ degree \in {1, 2, 3}
      /\ NumCP \in {degree + 1, degree + 2, degree + 5}
      /\ Len(influence) = NumCP
      /\ Leq(PyIndex(knots, degree), t)
      /\ Less(t, PyIndex(knots, NumCP)) )
    => SumSeq(influence) = Q(1)

C3_Witness ==
    /\ pc = "constructed" /\ degree = 3 /\ NumCP = 8
    /\ Len(influence) = NumCP
    /\ t = Norm(9, 4)
    /\ Cardinality({j \in 1..NumCP : influence[j] # Q(0)}) = 4

\* C4: for n > d, at every t that evaluate generates and retains
\* (t_min <= t < t_max), the values cox_de_boor(i, d, t) for i = 0..n-1 sum
\* to 1.
C4_PartitionOnSampledDomain ==
    (Sampled /\ NumCP > degree /\ Leq(t_min, t) /\ Less(t, t_max))
    => SumSeq(influence) = Q(1)

\* the point evaluate computes for the sample tt
PointAt(tt) == Normalise(InnerLoop(NumCP, Influences(tt)))

\* C5: for samples = S >= 2 and n > d, evaluate returns exactly S - 1 points:
\* the points of the S generated samples, in increasing t, without the one
\* of the final sample t = t_max.
C5_AllButLast ==
    (pc = "returned" /\ samples >= 2 /\ NumCP > degree)
    => /\ Len(result) = samples - 1
       /\ Len(t_values) = samples
       /\ t_values[samples] = t_max
       /\ \A j \in 1..(samples - 1) :
             /\ Less(t_values[j], t_values[j + 1])
             /\ result[j] = PointAt(t_values[j])

C5_Witness ==
    /\ pc = "returned" /\ samples = 4 /\ NumCP = 4 /\ degree = 3
    /\ Len(result) = 3
    /\ result[1] # result[2] /\ result[2] # result[3]

\* C6 as stated: at any sample where weight_sum is not greater than 0 the
\* emitted point is (0, 0).
C6_ZeroVector ==
    (Sampled /\ ~Less(Q(0), weight_sum)) => point = Zero2

\* the sum over i of influence * weight * position at the current sample
Accumulated ==
    <<SumSeq([j \in 1..NumCP |->
                Mul(Mul(influence[j], Q(weights[j])), Q(control_points[j][1]))]),
      SumSeq([j \in 1..NumCP |->
                Mul(Mul(influence[j], Q(weights[j])), Q(control_points[j][2]))])>>

\* C6 as amended: at any sample where weight_sum is not greater than 0 the
\* emitted point is the accumulated sum of influence * weight * position,
\* not normalised; it is (0, 0) when no weight is negative and n > d.
C6_Unnormalised ==
    (Sampled /\ ~Less(Q(0), weight_sum))
    => /\ point = Accumulated
       /\ curve_points[Len(curve_points)] = point
       /\ ((NumCP > degree /\ \A j \in 1..NumCP : weights[j] >= 0)
              => point = Zero2)

C6_Witness ==
    /\ Sampled /\ Less(weight_sum, Q(0)) /\ point # Zero2
    /\ \E j \in 1..NumCP : weights[j] > 0

\* C7: for every n >= 1, d >= 0, i in 0..n-1 and t, cox_de_boor(i, d, t)
\* never divides by zero: it returns a number, a term whose denominator is 0
\* contributing 0.
C7_NoDivisionByZero ==
    \A j \in 1..Len(influence) :
        /\ ~Raised(influence[j])
        /\ (degree >= 1 /\ PyIndex(knots, j - 1) = PyIndex(knots, j + degree))
              => influence[j] = Q(0)

C7_Witness ==
    /\ pc = "constructed" /\ degree = 3 /\ Len(influence) = 1
    /\ PyIndex(knots, degree) = PyIndex(knots, 0)
    /\ Less(Q(0), t) /\ Less(t, Q(1))
    /\ Less(Q(0), influence[1])

\* the calls into NurbsCurve among calls c
IsCurveCall(c) == c[1] \in {"get_uniform_knots_v", "evaluate"}
CurveCalls(c) == SelectSeq(c, IsCurveCall)
BuildThenEvaluate(n) == <<<<"get_uniform_knots_v", n>>, <<"evaluate", n>>>>

\* C8 as stated: every handler run that changes CP_list (a click that adds
\* a point, a drag that moves one, a weight change, a clear) makes exactly
\* one knot-vector build and then exactly one evaluate over the current
\* control-point list.
C8_AlwaysBuildThenEvaluate ==
    [][CP_list' # CP_list
          => CurveCalls(calls') = BuildThenEvaluate(Len(CP_list'))]_vars

\* C8 as amended: every handler run that changes CP_list redraws once and
\* makes exactly one knot-vector build and then exactly one evaluate over
\* the current control-point list when that list holds more than 3 control
\* points, and makes neither call otherwise.
C8_BuildThenEvaluateAboveThree ==
    [][CP_list' # CP_list
          => /\ calls'[1] = <<"redraw_display", Len(CP_list')>>
             /\ CurveCalls(calls') =
                   IF Len(CP_list') > 3
                   THEN BuildThenEvaluate(Len(CP_list'))
                   ELSE <<>>
             /\ Len(calls') = 1 + Len(CurveCalls(calls'))]_vars

C8_Witness ==
    /\ event[1] = "left_mouse_drag" /\ Len(CP_list) = 4
    /\ CurveCalls(calls) = BuildThenEvaluate(4)
    /\ canvas = <<3, 4, 98>>

\* C9: when a control point has been selected by a click (any index,
\* the first included) and the slider then reports v, update_weight sets
\* that point's weight to v, leaves every other point, and that point's
\* position and label, unchanged, and redraws.
C9_SliderSetsSelectedWeight ==
    [][( /\ event'[1] = "update_weight_from_slider"
         /\ current_CP_i # NoneIndex /\ ~stale )
       => /\ Len(CP_list') = Len(CP_list)
          /\ \A j \in 1..Len(CP_list) :
                CP_list'[j] =
                   IF j = current_CP_i + 1
                   THEN <<CP_list[j][1], CP_list[j][2], CP_list[j][3],
                          event'[2]>>
                   ELSE CP_list[j]
          /\ calls' # <<>>
          /\ calls'[1] = <<"redraw_display", Len(CP_list)>>]_vars

\* the handler that ran last indexed CP_list with current_CP_i
IndexesList ==
    \/ event[1] = "left_mouse_click" /\ current_CP # NoneSeq
    \/ event[1] = "left_mouse_drag" /\ current_CP # NoneSeq
    \/ event[1] = "update_weight_from_slider" /\ Truthy(current_CP_i)

\* C10: whenever a handler indexes CP_list with current_CP_i (left_mouse_drag
\* with a point held, show_weight_modifier, update_weight past its guard),
\* the index is in range and CP_list has not been reset since the click
\* that selected it; no IndexError is raised.
C10_IndexValid ==
    /\ err = None
    /\ IndexesList
          => /\ current_CP_i >= 0 /\ current_CP_i < Len(CP_list)
             /\ ~stale

====
